---- MODULE Spec2Model ----
(***************************************************************************)
(* A model of WebRtcPeer (src/src/main.ts): the gate that buffers remote   *)
(* ICE candidates (bufferizeCandidates), the offer/answer operations, the  *)
(* routing of locally gathered candidates and dispose, over a model of the *)
(* RTCPeerConnection the peer drives.                                      *)
(***************************************************************************)
EXTENDS Integers, Sequences, FiniteSets, TLC

\* ------------------------------------------------------------------ bounds
MaxCandidates == 3    \* remote candidates submitted to one peer
MaxCalls == 4         \* generateOffer / processOffer / processAnswer calls of one peer
MaxLocalEvents == 4   \* icecandidate notifications of one Connection
MaxListeners == 2     \* subscriptions made after construction, per peer
MaxDisposes == 2      \* dispose calls of one peer
MaxSdpLen == 3        \* tokens of a payload handed to the Mangler

Peers == {"A", "B"}
Modes == {"recvonly", "sendonly", "sendrecv"}

\* ------------------------------------------------------------- descriptions
\* A description's payload (sdp) is a sequence of tokens, each a tuple of
\* strings; FID is the token 'a=ssrc-group:FID' removeFIDFromOffer looks for.
FID == <<"a=ssrc-group:FID">>
\* The payload createOffer and createAnswer produce.
LocalSdps == { << <<"v=0">>, FID, <<"a=ssrc:9">> >> }
NullDesc == [type |-> "null", sdp |-> <<>>]
Desc(t, s) == [type |-> t, sdp |-> s]
\* The payload the other side sends in an offer or an answer.
RemoteSdps == { << <<"v=0">>, <<"a=remote">> >> }
StreamId == "stream"
TrackId == "track"
\* The payloads the Mangler's functions are applied to: every sequence of at
\* most MaxSdpLen tokens, with the FID token at any position or absent.
Tokens == {FID, <<"v=0">>, <<"a=ssrc:9">>}
Texts == UNION { [1..n -> Tokens] : n \in 0..MaxSdpLen }
Types == {"offer", "answer"}
MangleFunctions == {"removeFIDFromOffer", "getSimulcastInfo", "mangleSdpToAddSimulcast"}

VARIABLES
  mode,                       \* this.mode
  simulcast,                  \* this.simulcast
  hasVideoTrack,              \* whether this.videoStream holds a video track
  signalingState,             \* pc.signalingState
  pendingLocalDescription,    \* pc.pendingLocalDescription
  currentLocalDescription,    \* pc.currentLocalDescription
  pendingRemoteDescription,   \* pc.pendingRemoteDescription
  currentRemoteDescription,   \* pc.currentRemoteDescription
  addIceCandidateFn,          \* whether this.addIceCandidateFn (the gate) exists
  candidatesQueue,            \* the gate's candidatesQueue: ids of submissions
  submissions,                \* the futures addIceCandidate returned, by id
  applyLog,                   \* the pc.addIceCandidate calls, in call order
  call,                       \* the negotiation call in flight and the await it is at
  result,                     \* how the last finished negotiation call ended
  calls,                      \* number of negotiation calls made so far
  remoteVideo,                \* whether this.remoteVideo is set
  localVideo,                 \* whether this.localVideo is set
  remoteVideoOps,             \* what the last user of remoteVideo did to it, in order
  localVideoOps,              \* what the last user of localVideo did to it, in order
  transceivers,               \* pc.getTransceivers(): their directions, in order
  mediaConstraints,           \* this.mediaConstraints: which kinds it enables
  audioStream,                \* whether this.audioStream is set
  videoStream,                \* this.videoStream: "none", "supplied" or "acquired"
  dataChannel,                \* this.dataChannel's readyState, "none" without one
  senderTracks,               \* the tracks of pc.getSenders()
  stoppedTracks,              \* the tracks stop() was called on
  startTask,                  \* the start call in flight and its last result
  disposeEmits,               \* how many times '_dispose' reached its handler
  disposeLog,                 \* what each dispose call did, in call order
  candidatesQueueOut,         \* the constructor's candidatesQueueOut (0 is null)
  candidategatheringdone,     \* the constructor's candidategatheringdone flag
  listeners,                  \* listenerCount of 'icecandidate' and 'candidategatheringdone'
  hooks,                      \* whether the 'newListener' and '_dispose' handlers are registered
  emitted,                    \* what listeners were handed, in order
  localEvents,                \* the icecandidate notifications of the Connection (0 is null)
  subscriptions,              \* number of on(...) calls made after construction
  answerIn,                   \* the description the Mangler's functions are applied to
  outputs                     \* what each of the Mangler's functions gave for answerIn

connVars == <<signalingState, pendingLocalDescription, currentLocalDescription,
              pendingRemoteDescription, currentRemoteDescription>>
gateVars == <<addIceCandidateFn, candidatesQueue, submissions, applyLog>>
taskVars == <<call, result, calls>>
optionVars == <<mode, simulcast, hasVideoTrack, remoteVideo, localVideo,
                mediaConstraints, audioStream>>
manglerVars == <<answerIn, outputs>>
confVars == <<optionVars, manglerVars>>
videoVars == <<remoteVideoOps, localVideoOps>>
mediaVars == <<videoStream, dataChannel, senderTracks, stoppedTracks, startTask,
               disposeEmits, disposeLog>>
outVars == <<candidatesQueueOut, candidategatheringdone, listeners, hooks, emitted,
             localEvents, subscriptions>>
vars == <<confVars, connVars, gateVars, taskVars, videoVars, transceivers,
          mediaVars, outVars>>

\* ---------------------------------------------------------- pure functions
\* String.prototype.indexOf on the token sequence: the 0-based offset of the
\* first occurrence of marker, -1 when there is none.
IndexOf(sdp, marker) ==
  LET hits == { i \in 1..Len(sdp) : sdp[i] = marker }
  IN IF hits = {} THEN -1
     ELSE (CHOOSE i \in hits : \A j \in hits : i <= j) - 1

Slice(sdp, n) == SubSeq(sdp, 1, n)

removeFIDFromOffer(sdp) ==
  LET n == IndexOf(sdp, FID)
  IN IF n > 0 THEN Slice(sdp, n) ELSE sdp

\* The four lines of one ssrc in the template; cname and mslabel are what the
\* template's text has at the end of those two lines.
SsrcLines(k, cname, mslabel, streamId, trackId) ==
  << <<"a=ssrc", k, "cname", cname>>,
     <<"a=ssrc", k, "msid", streamId, trackId, ",">>,
     <<"a=ssrc", k, "mslabel", streamId, mslabel>>,
     <<"a=ssrc", k, "label", trackId>> >>

\* getSimulcastInfo without the test for video tracks.
SimulcastInfoIgnoresTracks(hasTrack, streamId, trackId) ==
  << <<"a=x-google-flag:conference">>, <<"a=ssrc-group:SIM", "1", "2", "3">> >>
  \o SsrcLines("1", "localVideo", ",", streamId, trackId)
  \o SsrcLines("2", "localVideo'", "", streamId, trackId)
  \o SsrcLines("3", "localVideo", "", streamId, trackId)

getSimulcastInfo(hasTrack, streamId, trackId) ==
  IF ~hasTrack THEN <<>>
  ELSE << <<"a=x-google-flag:conference">>, <<"a=ssrc-group:SIM", "1", "2", "3">> >>
       \o SsrcLines("1", "localVideo", ",", streamId, trackId)
       \o SsrcLines("2", "localVideo'", "", streamId, trackId)
       \o SsrcLines("3", "localVideo", "", streamId, trackId)

\* mangleSdpToAddSimulcast wrapping its result as an offer.
MangleRetypes(p, answer) == Desc("offer", answer.sdp)

\* mangleSdpToAddSimulcast leaving the description as it is.
MangleSkipped(p, answer) == answer

mangleSdpToAddSimulcast(p, answer) ==
  IF simulcast[p]
  THEN Desc(answer.type,
            removeFIDFromOffer(answer.sdp)
              \o getSimulcastInfo(hasVideoTrack[p], StreamId, TrackId))
  ELSE answer

\* The Mangler's functions applied on their own to answerIn.
NotApplied == [kind |-> "none", value |-> <<>>]
Gave(v) == [kind |-> "returned", value |-> v]
ThrewTypeError == [kind |-> "threw", value |-> <<>>]

ManglerIdle ==
  /\ answerIn = NullDesc
  /\ outputs = [f \in MangleFunctions |-> NotApplied]

\* The variables an application of one of the functions leaves alone.
appliedFrame == <<answerIn, optionVars, connVars, gateVars, taskVars, videoVars,
                  transceivers, mediaVars, outVars>>

ApplyRemoveFID ==
  /\ outputs["removeFIDFromOffer"] = NotApplied
  /\ outputs' = [outputs EXCEPT !["removeFIDFromOffer"] =
       Gave(removeFIDFromOffer(answerIn.sdp))]
  /\ UNCHANGED appliedFrame

\* getSimulcastInfo(this.videoStream): videoStream.getVideoTracks() throws a
\* TypeError when the peer has no videoStream.
ApplyGetSimulcastInfo(p) ==
  /\ outputs["getSimulcastInfo"] = NotApplied
  /\ outputs' = [outputs EXCEPT !["getSimulcastInfo"] =
       IF videoStream[p] = "none" THEN ThrewTypeError
       ELSE Gave(getSimulcastInfo(hasVideoTrack[p], StreamId, TrackId))]
  /\ UNCHANGED appliedFrame

ApplyMangle(p) ==
  /\ outputs["mangleSdpToAddSimulcast"] = NotApplied
  /\ outputs' = [outputs EXCEPT !["mangleSdpToAddSimulcast"] =
       IF simulcast[p] /\ videoStream[p] = "none" THEN ThrewTypeError
       ELSE Gave(mangleSdpToAddSimulcast(p, answerIn))]
  /\ UNCHANGED appliedFrame

\* ------------------------------------------------------------ the Connection
LocalDescription(p) ==
  IF pendingLocalDescription[p] # NullDesc THEN pendingLocalDescription[p]
  ELSE currentLocalDescription[p]

RemoteDescription(p) ==
  IF pendingRemoteDescription[p] # NullDesc THEN pendingRemoteDescription[p]
  ELSE currentRemoteDescription[p]

ConnNow(p) ==
  [ok |-> FALSE, state |-> signalingState[p],
   pl |-> pendingLocalDescription[p], cl |-> currentLocalDescription[p],
   pr |-> pendingRemoteDescription[p], cr |-> currentRemoteDescription[p]]

\* The Connection after setLocalDescription(d); ok is FALSE when it rejects.
ConnAfterSetLocal(p, d) ==
  LET c == ConnNow(p) IN
  IF d.type = "offer" /\ c.state \in {"stable", "have-local-offer"}
  THEN [c EXCEPT !.ok = TRUE, !.state = "have-local-offer", !.pl = d]
  ELSE IF d.type = "answer" /\ c.state = "have-remote-offer"
  THEN [c EXCEPT !.ok = TRUE, !.state = "stable",
                 !.pl = NullDesc, !.cl = d, !.pr = NullDesc, !.cr = c.pr]
  ELSE c

\* The Connection after setRemoteDescription(d). An offer that arrives in
\* have-local-offer is rejected, or (rollback) accepted after an implicit
\* rollback of the local offer: browsers differ.
ConnAfterSetRemote(p, d, rollback) ==
  LET c == ConnNow(p) IN
  IF d.type = "offer" /\ c.state \in {"stable", "have-remote-offer"}
  THEN [c EXCEPT !.ok = TRUE, !.state = "have-remote-offer", !.pr = d]
  ELSE IF d.type = "offer" /\ c.state = "have-local-offer" /\ rollback
  THEN [c EXCEPT !.ok = TRUE, !.state = "have-remote-offer",
                 !.pl = NullDesc, !.pr = d]
  ELSE IF d.type = "answer" /\ c.state = "have-local-offer"
  THEN [c EXCEPT !.ok = TRUE, !.state = "stable",
                 !.pl = NullDesc, !.cl = c.pl, !.pr = NullDesc, !.cr = d]
  ELSE c

ConnHasRemote(c) == c.pr # NullDesc \/ c.cr # NullDesc
ConnLocal(c) == IF c.pl # NullDesc THEN c.pl ELSE c.cl

\* ------------------------------------------------------------------ the gate
\* The future addIceCandidate returns, with what happened to its candidate:
\* whether it went through the queue, how many pc.addIceCandidate calls it
\* was passed to and how many times resolve or reject was called.
Submission ==
  [status |-> "pending", error |-> "none", applies |-> 0, settles |-> 0,
   queued |-> FALSE]

ApplyEntry(id, state, remote) ==
  [cand |-> id, state |-> state, remote |-> remote, outcome |-> "pending"]

\* GateBranch without its 'closed' case: a closed Connection falls to default.
GateBranchNoClosedCase(state, hasRemote) ==
  CASE state = "stable" /\ hasRemote -> "apply"
    [] state = "stable" /\ ~hasRemote -> "rejectNoRemote"
    [] OTHER -> "queue"

\* GateBranch without the test of pc.remoteDescription.
GateBranchNoRemoteTest(state, hasRemote) ==
  CASE state = "closed" -> "rejectClosed"
    [] state = "stable" -> "apply"
    [] OTHER -> "queue"

\* The branch the returned function takes (the switch on pc.signalingState).
GateBranch(state, hasRemote) ==
  CASE state = "closed" -> "rejectClosed"
    [] state = "stable" /\ hasRemote -> "apply"
    [] state = "stable" /\ ~hasRemote -> "rejectNoRemote"
    [] OTHER -> "queue"

\* FlushSequence visiting the queue from its end.
FlushSequenceReversed(q) == [i \in 1..Len(q) |-> q[Len(q) + 1 - i]]

\* The order in which the listener's candidatesQueue.map visits the queue.
FlushSequence(q) == q

\* QueueAfterFlush without the reset of the queue.
QueueNotCleared(q) == q

\* candidatesQueue.length = 0
QueueAfterFlush(q) == <<>>

\* ListenerFlushes without the early return.
ListenerFlushesAnyState(state) == TRUE

\* Whether the listener flushes: it returns unless the state is stable.
ListenerFlushes(state) == state = "stable"

Occurrences(q, id) == Cardinality({ i \in 1..Len(q) : q[i] = id })

\* The signalingstatechange listener of the gate, run when the Connection's
\* state changed from signalingState[p] to c.state.
SignalingStateChange(p, c) ==
  IF addIceCandidateFn[p] /\ c.state # signalingState[p] /\ ListenerFlushes(c.state)
  THEN LET q == FlushSequence(candidatesQueue[p]) IN
       /\ applyLog' = [applyLog EXCEPT ![p] =
            @ \o [i \in 1..Len(q) |-> ApplyEntry(q[i], c.state, ConnHasRemote(c))]]
       /\ submissions' = [submissions EXCEPT ![p] =
            [id \in 1..Len(@) |-> [@[id] EXCEPT !.applies = @ + Occurrences(q, id)]]]
       /\ candidatesQueue' = [candidatesQueue EXCEPT ![p] = QueueAfterFlush(@)]
  ELSE UNCHANGED <<applyLog, submissions, candidatesQueue>>

\* The Connection takes the state c and fires signalingstatechange.
ConnBecomes(p, c) ==
  /\ signalingState' = [signalingState EXCEPT ![p] = c.state]
  /\ pendingLocalDescription' = [pendingLocalDescription EXCEPT ![p] = c.pl]
  /\ currentLocalDescription' = [currentLocalDescription EXCEPT ![p] = c.cl]
  /\ pendingRemoteDescription' = [pendingRemoteDescription EXCEPT ![p] = c.pr]
  /\ currentRemoteDescription' = [currentRemoteDescription EXCEPT ![p] = c.cr]
  /\ SignalingStateChange(p, c)

\* WebRtcPeer.addIceCandidate: builds the gate on first use and submits.
AddIceCandidate(p) ==
  LET state == signalingState[p]
      remote == RemoteDescription(p) # NullDesc
      branch == GateBranch(state, remote)
      id == Len(submissions[p]) + 1
      sub == Submission
  IN
  /\ Len(submissions[p]) < MaxCandidates
  /\ addIceCandidateFn' = [addIceCandidateFn EXCEPT ![p] = TRUE]
  /\ CASE branch = "rejectClosed" ->
            /\ submissions' = [submissions EXCEPT ![p] = Append(@,
                 [sub EXCEPT !.status = "rejected", !.error = "ConnectionClosed",
                             !.settles = 1])]
            /\ UNCHANGED <<candidatesQueue, applyLog>>
       [] branch = "rejectNoRemote" ->
            /\ submissions' = [submissions EXCEPT ![p] = Append(@,
                 [sub EXCEPT !.status = "rejected", !.error = "NoRemoteDescription",
                             !.settles = 1])]
            /\ UNCHANGED <<candidatesQueue, applyLog>>
       [] branch = "apply" ->
            /\ submissions' = [submissions EXCEPT ![p] = Append(@,
                 [sub EXCEPT !.applies = 1])]
            /\ applyLog' = [applyLog EXCEPT ![p] = Append(@, ApplyEntry(id, state, remote))]
            /\ UNCHANGED candidatesQueue
       [] OTHER ->
            /\ submissions' = [submissions EXCEPT ![p] = Append(@,
                 [sub EXCEPT !.queued = TRUE])]
            /\ candidatesQueue' = [candidatesQueue EXCEPT ![p] = Append(@, id)]
            /\ UNCHANGED applyLog
  /\ UNCHANGED <<confVars, mediaVars, outVars, connVars, taskVars, videoVars, transceivers>>

\* SettleFuture with the rejection handler missing: .then(resolve).
SettleFutureResolvesOnly(sub, ok) ==
  IF sub.status # "pending" THEN [sub EXCEPT !.settles = @ + 1]
  ELSE [sub EXCEPT !.status = "resolved", !.settles = @ + 1]

\* How the future of a submission settles when its pc.addIceCandidate call
\* settles: .then(resolve, reject).
SettleFuture(sub, ok) ==
  IF sub.status # "pending" THEN [sub EXCEPT !.settles = @ + 1]
  ELSE IF ok THEN [sub EXCEPT !.status = "resolved", !.settles = @ + 1]
  ELSE [sub EXCEPT !.status = "rejected", !.error = "ApplyFailed", !.settles = @ + 1]

\* The Connection settles the k-th pc.addIceCandidate call.
ApplySettles(p, k, ok) ==
  /\ k \in 1..Len(applyLog[p])
  /\ applyLog[p][k].outcome = "pending"
  /\ applyLog' = [applyLog EXCEPT ![p][k].outcome = IF ok THEN "ok" ELSE "failed"]
  /\ submissions' = [submissions EXCEPT ![p][applyLog[p][k].cand] = SettleFuture(@, ok)]
  /\ UNCHANGED <<confVars, mediaVars, outVars, connVars, taskVars, videoVars, transceivers,
                 addIceCandidateFn, candidatesQueue>>

\* ------------------------------------------------------------- negotiation
NoCall == [op |-> "none", pc |-> "idle", desc |-> NullDesc]
InFlight(op, at, d) == [op |-> op, pc |-> at, desc |-> d]
NoResult == [op |-> "none", kind |-> "none", error |-> "none", sdp |-> <<>>,
             desc |-> NullDesc]
Returned(op, s, d) == [op |-> op, kind |-> "returned", error |-> "none", sdp |-> s,
                       desc |-> d]
Threw(op, e) == [op |-> op, kind |-> "threw", error |-> e, sdp |-> <<>>,
                 desc |-> NullDesc]

\* The call of p in flight finishes with result r.
Finishes(p, r) ==
  /\ call' = [call EXCEPT ![p] = NoCall]
  /\ result' = [result EXCEPT ![p] = r]

\* The call of p in flight goes on to its next await.
Awaits(p, at, d) ==
  /\ call' = [call EXCEPT ![p] = InFlight(@.op, at, d)]
  /\ UNCHANGED result

\* setRemoteVideo(): pause, srcObject = the remote stream, load.
setRemoteVideo(p) ==
  IF remoteVideo[p] THEN <<"pause", "srcObject=stream", "load">> ELSE remoteVideoOps[p]

\* getSimulcastInfo(this.videoStream) throws a TypeError without a videoStream.
MangleThrows(p) == simulcast[p] /\ videoStream[p] = "none"

\* What processOffer does once createAnswer has resolved with answer: it
\* mangles the answer and reads pc.localDescription.
ProcessOfferFinish(p, answer) ==
  LET mangled == mangleSdpToAddSimulcast(p, answer)
      localDescription == LocalDescription(p)
  IN IF MangleThrows(p) THEN Threw("processOffer", "TypeError")
     ELSE IF localDescription = NullDesc THEN Threw("processOffer", "NoLocalDescription")
     ELSE Returned("processOffer", localDescription.sdp, mangled)

\* ThrowsConnectionClosed without the test of the signaling state.
ClosedTestSkipped(state) == FALSE

\* if (this.peerConnection.signalingState === 'closed') throw ...: the test
\* processOffer and processAnswer make before they touch the Connection.
ThrowsConnectionClosed(state) == state = "closed"

\* The caller serialises the negotiation calls of one peer: none is made
\* while another is in flight.
NoCallInFlight(p) == call[p] = NoCall

\* generateOffer up to its first await: the transceivers, then createOffer.
GenerateOfferCall(p) ==
  /\ NoCallInFlight(p)
  /\ calls[p] < MaxCalls
  /\ calls' = [calls EXCEPT ![p] = @ + 1]
  /\ transceivers' = [transceivers EXCEPT ![p] =
       IF mode[p] = "recvonly"
       THEN @ \o (IF mediaConstraints[p].audio THEN <<"recvonly">> ELSE <<>>)
              \o (IF mediaConstraints[p].video THEN <<"recvonly">> ELSE <<>>)
       ELSE IF mode[p] = "sendonly" THEN [i \in 1..Len(@) |-> "sendonly"]
       ELSE @]
  /\ call' = [call EXCEPT ![p] = InFlight("generateOffer", "createOffer", NullDesc)]
  /\ UNCHANGED <<confVars, mediaVars, outVars, connVars, gateVars, videoVars, result>>

\* createOffer settles: it rejects on a closed Connection; otherwise the
\* offer is mangled and handed to setLocalDescription.
GenerateOfferCreated(p, sdp) ==
  /\ call[p].op = "generateOffer" /\ call[p].pc = "createOffer"
  /\ IF signalingState[p] = "closed" THEN Finishes(p, Threw("generateOffer", "InvalidState"))
     ELSE IF MangleThrows(p) THEN Finishes(p, Threw("generateOffer", "TypeError"))
     ELSE Awaits(p, "setLocalDescription", mangleSdpToAddSimulcast(p, Desc("offer", sdp)))
  /\ UNCHANGED <<confVars, mediaVars, outVars, connVars, gateVars, videoVars, transceivers,
                 calls>>

\* setLocalDescription settles; on success generateOffer returns the sdp of
\* pc.localDescription.
GenerateOfferSet(p) ==
  LET c == ConnAfterSetLocal(p, call[p].desc) IN
  /\ call[p].op = "generateOffer" /\ call[p].pc = "setLocalDescription"
  /\ IF c.ok
     THEN /\ ConnBecomes(p, c)
          /\ Finishes(p, IF ConnLocal(c) = NullDesc
                         THEN Threw("generateOffer", "NoLocalDescription")
                         ELSE Returned("generateOffer", ConnLocal(c).sdp, call[p].desc))
     ELSE /\ Finishes(p, Threw("generateOffer", "SetLocalFailed"))
          /\ UNCHANGED <<connVars, candidatesQueue, submissions, applyLog>>
  /\ UNCHANGED <<confVars, mediaVars, outVars, addIceCandidateFn, videoVars, transceivers,
                 calls>>

\* processOffer up to its first await.
ProcessOfferCall(p, sdp) ==
  /\ NoCallInFlight(p)
  /\ calls[p] < MaxCalls
  /\ calls' = [calls EXCEPT ![p] = @ + 1]
  /\ IF ThrowsConnectionClosed(signalingState[p])
     THEN /\ result' = [result EXCEPT ![p] = Threw("processOffer", "ConnectionClosed")]
          /\ UNCHANGED call
     ELSE /\ call' = [call EXCEPT ![p] =
               InFlight("processOffer", "setRemoteDescription", Desc("offer", sdp))]
          /\ UNCHANGED result
  /\ UNCHANGED <<confVars, mediaVars, outVars, connVars, gateVars, videoVars, transceivers>>

\* setRemoteDescription(offer) settles; on success setRemoteVideo runs and
\* createAnswer is called.
ProcessOfferSet(p, rollback) ==
  LET c == ConnAfterSetRemote(p, call[p].desc, rollback) IN
  /\ call[p].op = "processOffer" /\ call[p].pc = "setRemoteDescription"
  /\ IF c.ok
     THEN /\ ConnBecomes(p, c)
          /\ remoteVideoOps' = [remoteVideoOps EXCEPT ![p] = setRemoteVideo(p)]
          /\ Awaits(p, "createAnswer", call[p].desc)
     ELSE /\ Finishes(p, Threw("processOffer", "SetRemoteFailed"))
          /\ UNCHANGED <<connVars, candidatesQueue, submissions, applyLog, remoteVideoOps>>
  /\ UNCHANGED <<confVars, mediaVars, outVars, addIceCandidateFn, localVideoOps, transceivers,
                 calls>>

\* createAnswer settles: it rejects unless a remote offer is pending.
ProcessOfferAnswered(p, sdp) ==
  /\ call[p].op = "processOffer" /\ call[p].pc = "createAnswer"
  /\ Finishes(p, IF signalingState[p] # "have-remote-offer"
                 THEN Threw("processOffer", "InvalidState")
                 ELSE ProcessOfferFinish(p, Desc("answer", sdp)))
  /\ UNCHANGED <<confVars, mediaVars, outVars, connVars, gateVars, videoVars, transceivers,
                 calls>>

\* processAnswer up to its await.
ProcessAnswerCall(p, sdp) ==
  /\ NoCallInFlight(p)
  /\ calls[p] < MaxCalls
  /\ calls' = [calls EXCEPT ![p] = @ + 1]
  /\ IF ThrowsConnectionClosed(signalingState[p])
     THEN /\ result' = [result EXCEPT ![p] = Threw("processAnswer", "ConnectionClosed")]
          /\ UNCHANGED call
     ELSE /\ call' = [call EXCEPT ![p] =
               InFlight("processAnswer", "setRemoteDescription", Desc("answer", sdp))]
          /\ UNCHANGED result
  /\ UNCHANGED <<confVars, mediaVars, outVars, connVars, gateVars, videoVars, transceivers>>

\* setRemoteDescription(answer) settles; on success setRemoteVideo runs.
ProcessAnswerSet(p) ==
  LET c == ConnAfterSetRemote(p, call[p].desc, FALSE) IN
  /\ call[p].op = "processAnswer" /\ call[p].pc = "setRemoteDescription"
  /\ IF c.ok
     THEN /\ ConnBecomes(p, c)
          /\ remoteVideoOps' = [remoteVideoOps EXCEPT ![p] = setRemoteVideo(p)]
          /\ Finishes(p, Returned("processAnswer", <<>>, NullDesc))
     ELSE /\ Finishes(p, Threw("processAnswer", "SetRemoteFailed"))
          /\ UNCHANGED <<connVars, candidatesQueue, submissions, applyLog, remoteVideoOps>>
  /\ UNCHANGED <<confVars, mediaVars, outVars, addIceCandidateFn, localVideoOps, transceivers,
                 calls>>

\* ------------------------------------------------------------------- start
\* The tracks start adds: those of the video stream, then the audio stream's.
StreamTracks(p, stream) ==
  (IF stream # "none"
   THEN {"camAudio"} \cup (IF hasVideoTrack[p] THEN {"camVideo"} ELSE {})
   ELSE {})
  \cup (IF audioStream[p] THEN {"mic"} ELSE {})

\* Whether start has to acquire a media source.
StartAcquires(p) == mode[p] # "recvonly" /\ videoStream[p] = "none" /\ ~audioStream[p]

\* showLocalVideo(): srcObject = videoStream, muted = true.
showLocalVideo(p) == <<"srcObject=stream", "muted=true">>

StartIdle == [pc |-> "idle", kind |-> "none", error |-> "none"]

\* StartThrowsClosedEarly without the test of the signaling state.
StartClosedTestSkipped(state) == FALSE

\* if (this.peerConnection.signalingState === 'closed') throw ...: the test
\* start makes when it resumes.
StartThrowsClosedEarly(state) == state = "closed"

\* start up to its await: getUserMedia / getDisplayMedia, or sleep().
StartCall(p) ==
  /\ startTask[p] = StartIdle
  /\ startTask' = [startTask EXCEPT ![p].pc = IF StartAcquires(p) THEN "acquire" ELSE "sleep"]
  /\ UNCHANGED <<confVars, connVars, gateVars, taskVars, videoVars, transceivers,
                 videoStream, dataChannel, senderTracks, stoppedTracks, disposeEmits,
                 disposeLog, outVars>>

\* start resumes: the acquisition resolved (granted) or rejected, or the
\* tick passed.
StartResumes(p, granted) ==
  LET t == startTask[p]
      stream == IF t.pc = "acquire" THEN "acquired" ELSE videoStream[p]
      tracks == StreamTracks(p, stream)
  IN
  /\ t.pc \in {"acquire", "sleep"}
  /\ IF t.pc = "acquire" /\ ~granted
     THEN /\ startTask' = [startTask EXCEPT ![p] =
               [pc |-> "idle", kind |-> "threw", error |-> "AcquireFailed"]]
          /\ UNCHANGED <<videoStream, localVideoOps, senderTracks, transceivers>>
     ELSE /\ videoStream' = [videoStream EXCEPT ![p] = stream]
          /\ IF StartThrowsClosedEarly(signalingState[p])
             THEN /\ startTask' = [startTask EXCEPT ![p] =
                       [pc |-> "idle", kind |-> "threw", error |-> "ConnectionClosedEarly"]]
                  /\ UNCHANGED <<localVideoOps, senderTracks, transceivers>>
             ELSE /\ startTask' = [startTask EXCEPT ![p] =
                       [pc |-> "idle", kind |-> "returned", error |-> "none"]]
                  /\ localVideoOps' = [localVideoOps EXCEPT ![p] =
                       IF stream # "none" /\ localVideo[p] THEN showLocalVideo(p) ELSE @]
                  /\ senderTracks' = [senderTracks EXCEPT ![p] = @ \cup tracks]
                  /\ transceivers' = [transceivers EXCEPT ![p] =
                       @ \o [i \in 1..Cardinality(tracks \ senderTracks[p]) |-> "sendrecv"]]
  /\ UNCHANGED <<confVars, connVars, gateVars, taskVars, remoteVideoOps,
                 dataChannel, stoppedTracks, disposeEmits, disposeLog, outVars>>

\* ----------------------------------------------------------------- dispose
\* The '_dispose' handler: both video elements are reset and every listener
\* is removed, the handler itself and the 'newListener' one included.
DisposeHandler(p) ==
  /\ localVideoOps' = [localVideoOps EXCEPT ![p] =
       IF localVideo[p] THEN <<"pause", "srcObject=null", "load", "muted=false">> ELSE @]
  /\ remoteVideoOps' = [remoteVideoOps EXCEPT ![p] =
       IF remoteVideo[p] THEN <<"pause", "srcObject=null", "load">> ELSE @]
  /\ listeners' = [listeners EXCEPT ![p] = [icecandidate |-> 0, candidategatheringdone |-> 0]]
  /\ hooks' = [hooks EXCEPT ![p] = FALSE]
  /\ disposeEmits' = [disposeEmits EXCEPT ![p] = @ + 1]

\* DisposePath without the two returns.
DisposePathNoReturn(dc, state) == "closes"

\* Where dispose leaves its try block: "dcClosed" and "pcClosed" are the two
\* returns, "closes" runs to pc.close() and on to emit('_dispose').
DisposePath(dc, state) ==
  IF dc = "closed" THEN "dcClosed"
  ELSE IF state = "closed" THEN "pcClosed"
  ELSE "closes"

\* The step of a dispose call that throws: dc.close(), a track's stop(),
\* pc.close(), or a statement of the '_dispose' handler that releases a
\* video element; "none" when no step throws.
Faults == {"none", "dc", "track", "pc", "handler"}

\* Whether the call reaches the step that fault makes throw.
FaultApplies(p, fault) ==
  LET path == DisposePath(dataChannel[p], signalingState[p]) IN
  CASE fault = "none" -> TRUE
    [] fault = "dc" -> dataChannel[p] \in {"open", "closing"}
    [] fault = "track" -> path = "closes" /\ senderTracks[p] # {}
    [] fault = "pc" -> path = "closes"
    [] fault = "handler" -> path = "closes" /\ hooks[p] /\ (localVideo[p] \/ remoteVideo[p])

DisposeDoes(dc, stops, pc, emits) ==
  [dcClose |-> dc, stops |-> stops, pcClose |-> pc, emits |-> emits]

\* What a dispose call does: whether it calls dc.close(), stops the tracks,
\* calls pc.close() and calls emit('_dispose'). An exception in the try
\* block is logged by the catch, which falls through to the emit.
DisposeRun(p, fault) ==
  LET path == DisposePath(dataChannel[p], signalingState[p])
      hasDc == dataChannel[p] # "none"
  IN IF path = "dcClosed" THEN DisposeDoes(FALSE, FALSE, FALSE, FALSE)
     ELSE IF fault = "dc" THEN DisposeDoes(FALSE, FALSE, FALSE, TRUE)
     ELSE IF path = "pcClosed" THEN DisposeDoes(hasDc, FALSE, FALSE, FALSE)
     ELSE IF fault = "track" THEN DisposeDoes(hasDc, FALSE, FALSE, TRUE)
     ELSE IF fault = "pc" THEN DisposeDoes(hasDc, TRUE, FALSE, TRUE)
     ELSE DisposeDoes(hasDc, TRUE, TRUE, TRUE)

\* dispose(), with the step that throws in this call (fault).
Dispose(p, fault) ==
  LET run == DisposeRun(p, fault)
      handlerRuns == run.emits /\ hooks[p]
      threw == handlerRuns /\ fault = "handler"
  IN
  /\ Len(disposeLog[p]) < MaxDisposes
  /\ FaultApplies(p, fault)
  /\ disposeLog' = [disposeLog EXCEPT ![p] =
       Append(@, [fault |-> fault, did |-> run, threw |-> threw])]
  /\ stoppedTracks' = [stoppedTracks EXCEPT ![p] =
       IF run.stops THEN @ \cup senderTracks[p] ELSE @]
  /\ IF run.pcClose
     THEN ConnBecomes(p, [ConnNow(p) EXCEPT !.state = "closed"])
     ELSE UNCHANGED <<connVars, candidatesQueue, submissions, applyLog>>
  /\ dataChannel' = [dataChannel EXCEPT ![p] =
       IF run.pcClose /\ @ # "none" THEN "closed"
       ELSE IF run.dcClose /\ @ = "open" THEN "closing"
       ELSE @]
  /\ IF handlerRuns /\ ~threw THEN DisposeHandler(p)
     ELSE IF handlerRuns
     THEN /\ disposeEmits' = [disposeEmits EXCEPT ![p] = @ + 1]
          /\ UNCHANGED <<videoVars, listeners, hooks>>
     ELSE UNCHANGED <<videoVars, listeners, hooks, disposeEmits>>
  /\ UNCHANGED <<confVars, addIceCandidateFn, taskVars, transceivers, videoStream,
                 senderTracks, startTask, candidatesQueueOut, candidategatheringdone,
                 emitted, localEvents, subscriptions>>

\* The other side, or the transport, closes the data channel.
DataChannelCloses(p) ==
  /\ dataChannel[p] \in {"open", "closing"}
  /\ dataChannel' = [dataChannel EXCEPT ![p] = "closed"]
  /\ UNCHANGED <<confVars, connVars, gateVars, taskVars, videoVars, transceivers,
                 videoStream, senderTracks, stoppedTracks, startTask, disposeEmits,
                 disposeLog, outVars>>

\* -------------------------------------------- locally gathered candidates
Emission(event, cand, via, receivers) ==
  [event |-> event, cand |-> cand, via |-> via, receivers |-> receivers]

HasSubscriber(p) ==
  listeners[p].icecandidate > 0 \/ listeners[p].candidategatheringdone > 0

\* FlagAfterEmit without the final assignment: a candidate clears the flag
\* and the end of gathering sets it.
FlagResetByCandidate(cand, flag) == cand = 0

\* The flag after the listener's subscriber branch has handled a candidate.
FlagAfterEmit(cand, flag) == TRUE

\* The Connection's icecandidate event; cand = 0 is the null candidate that
\* ends gathering.
IceCandidateEvent(p, cand) ==
  /\ Len(localEvents[p]) < MaxLocalEvents
  /\ cand \in {0, Len(localEvents[p]) + 1}
  /\ signalingState[p] # "closed"
  /\ localEvents' = [localEvents EXCEPT ![p] = Append(@, cand)]
  /\ IF HasSubscriber(p)
     THEN /\ emitted' = [emitted EXCEPT ![p] =
               IF cand # 0
               THEN Append(@, Emission("icecandidate", cand, "emit", listeners[p].icecandidate))
               ELSE IF ~candidategatheringdone[p]
               THEN Append(@, Emission("candidategatheringdone", cand, "emit",
                                       listeners[p].candidategatheringdone))
               ELSE @]
          /\ candidategatheringdone' = [candidategatheringdone EXCEPT ![p] =
               FlagAfterEmit(cand, @)]
          /\ UNCHANGED candidatesQueueOut
     ELSE IF ~candidategatheringdone[p]
     THEN /\ candidatesQueueOut' = [candidatesQueueOut EXCEPT ![p] = Append(@, cand)]
          /\ candidategatheringdone' = [candidategatheringdone EXCEPT ![p] =
               IF cand = 0 THEN TRUE ELSE @]
          /\ UNCHANGED emitted
     ELSE UNCHANGED <<candidatesQueueOut, candidategatheringdone, emitted>>
  /\ UNCHANGED <<confVars, connVars, gateVars, taskVars, videoVars, transceivers,
                 mediaVars, listeners, hooks, subscriptions>>

\* Whether the 'newListener' handler hands a drained entry to the listener
\* being registered for event.
ReplayMatches(cand, event) == (cand = 0) = (event = "candidategatheringdone")

RECURSIVE Replay(_, _)
Replay(queue, event) ==
  IF queue = <<>> THEN <<>>
  ELSE (IF ReplayMatches(Head(queue), event)
        THEN <<Emission(event, Head(queue), "replay", 1)>> ELSE <<>>)
       \o Replay(Tail(queue), event)

\* DrainedQueue leaving the entries in the buffer.
DrainKeepsQueue(queue) == queue

\* candidatesQueueOut once the handler's while loop has shifted every entry.
DrainedQueue(queue) == <<>>

\* on(event, listener) after construction: the 'newListener' handler runs
\* first, then the listener is added.
Subscribe(p, event) ==
  /\ subscriptions[p] < MaxListeners
  /\ subscriptions' = [subscriptions EXCEPT ![p] = @ + 1]
  /\ IF hooks[p]
     THEN /\ emitted' = [emitted EXCEPT ![p] = @ \o Replay(candidatesQueueOut[p], event)]
          /\ candidatesQueueOut' = [candidatesQueueOut EXCEPT ![p] = DrainedQueue(@)]
     ELSE UNCHANGED <<emitted, candidatesQueueOut>>
  /\ listeners' = [listeners EXCEPT ![p][event] = @ + 1]
  /\ UNCHANGED <<confVars, connVars, gateVars, taskVars, videoVars, transceivers,
                 mediaVars, candidategatheringdone, hooks, localEvents>>

\* --------------------------------------------------------------- the system
Config(m, sim, hvt, vs, as, lv, rv, dc, a, v, onice, ondone) ==
  [mode |-> m, simulcast |-> sim, hasVideoTrack |-> hvt, videoStream |-> vs,
   audioStream |-> as, localVideo |-> lv, remoteVideo |-> rv, dataChannels |-> dc,
   audio |-> a, video |-> v, onicecandidate |-> onice,
   oncandidategatheringdone |-> ondone]

\* The options a peer is constructed with.
SendonlyConfig ==
  Config("sendonly", FALSE, TRUE, "supplied", FALSE, TRUE, TRUE, FALSE, TRUE, TRUE, FALSE, FALSE)
RecvonlyConfig ==
  Config("recvonly", FALSE, FALSE, "none", FALSE, FALSE, TRUE, TRUE, TRUE, TRUE, TRUE, FALSE)
SendrecvConfig ==
  Config("sendrecv", TRUE, TRUE, "supplied", TRUE, TRUE, TRUE, TRUE, TRUE, FALSE, FALSE, TRUE)
AcquiringConfig ==
  Config("sendonly", TRUE, FALSE, "none", FALSE, TRUE, FALSE, FALSE, TRUE, TRUE, FALSE, FALSE)
\* A recvonly peer that was handed a video stream in its options.
RecvonlyStreamConfig ==
  Config("recvonly", FALSE, TRUE, "supplied", FALSE, FALSE, TRUE, FALSE, TRUE, TRUE, FALSE, FALSE)
Configs ==
  {SendonlyConfig, RecvonlyConfig, SendrecvConfig, AcquiringConfig, RecvonlyStreamConfig}

\* The state after new WebRtcPeer(mode, options), per peer.
Constructed(cfg) ==
  /\ mode = [p \in Peers |-> cfg[p].mode]
  /\ simulcast = [p \in Peers |-> cfg[p].simulcast]
  /\ hasVideoTrack = [p \in Peers |-> cfg[p].hasVideoTrack]
  /\ remoteVideo = [p \in Peers |-> cfg[p].remoteVideo]
  /\ localVideo = [p \in Peers |-> cfg[p].localVideo]
  /\ mediaConstraints = [p \in Peers |-> [audio |-> cfg[p].audio, video |-> cfg[p].video]]
  /\ audioStream = [p \in Peers |-> cfg[p].audioStream]
  /\ videoStream = [p \in Peers |-> cfg[p].videoStream]
  /\ dataChannel = [p \in Peers |-> IF cfg[p].dataChannels THEN "open" ELSE "none"]
  /\ listeners = [p \in Peers |->
       [icecandidate |-> IF cfg[p].onicecandidate THEN 1 ELSE 0,
        candidategatheringdone |-> IF cfg[p].oncandidategatheringdone THEN 1 ELSE 0]]
  /\ signalingState = [p \in Peers |-> "stable"]
  /\ pendingLocalDescription = [p \in Peers |-> NullDesc]
  /\ currentLocalDescription = [p \in Peers |-> NullDesc]
  /\ pendingRemoteDescription = [p \in Peers |-> NullDesc]
  /\ currentRemoteDescription = [p \in Peers |-> NullDesc]
  /\ addIceCandidateFn = [p \in Peers |-> FALSE]
  /\ candidatesQueue = [p \in Peers |-> <<>>]
  /\ submissions = [p \in Peers |-> <<>>]
  /\ applyLog = [p \in Peers |-> <<>>]
  /\ call = [p \in Peers |-> NoCall]
  /\ result = [p \in Peers |-> NoResult]
  /\ startTask = [p \in Peers |-> StartIdle]
  /\ calls = [p \in Peers |-> 0]
  /\ remoteVideoOps = [p \in Peers |-> <<>>]
  /\ localVideoOps = [p \in Peers |-> <<>>]
  /\ transceivers = [p \in Peers |-> <<>>]
  /\ senderTracks = [p \in Peers |-> {}]
  /\ stoppedTracks = [p \in Peers |-> {}]
  /\ disposeEmits = [p \in Peers |-> 0]
  /\ disposeLog = [p \in Peers |-> <<>>]
  /\ candidatesQueueOut = [p \in Peers |-> <<>>]
  /\ candidategatheringdone = [p \in Peers |-> FALSE]
  /\ hooks = [p \in Peers |-> TRUE]
  /\ emitted = [p \in Peers |-> <<>>]
  /\ localEvents = [p \in Peers |-> <<>>]
  /\ subscriptions = [p \in Peers |-> 0]

Init ==
  /\ \E c \in {SendonlyConfig, SendrecvConfig} :
       Constructed([p \in Peers |-> IF p = "A" THEN c ELSE RecvonlyConfig])
  /\ ManglerIdle

\* The steps the event loop takes on its own once their await has settled.
Continues(p) ==
  \/ \E k \in 1..Len(applyLog[p]), ok \in BOOLEAN : ApplySettles(p, k, ok)
  \/ \E sdp \in LocalSdps : GenerateOfferCreated(p, sdp)
  \/ GenerateOfferSet(p)
  \/ \E rollback \in BOOLEAN : ProcessOfferSet(p, rollback)
  \/ \E sdp \in LocalSdps : ProcessOfferAnswered(p, sdp)
  \/ ProcessAnswerSet(p)

\* What the caller of peer p may do to the gate and the negotiation; it
\* disposes of the peer once.
Calls(p) ==
  \/ AddIceCandidate(p)
  \/ GenerateOfferCall(p)
  \/ \E sdp \in RemoteSdps : ProcessOfferCall(p, sdp)
  \/ \E sdp \in RemoteSdps : ProcessAnswerCall(p, sdp)
  \/ disposeLog[p] = <<>> /\ Dispose(p, "none")

\* One peer, its gate and its negotiation.
Next == Calls("A") \/ Continues("A") \/ DataChannelCloses("A")

Spec == Init /\ [][Next]_vars

\* The same, with the event loop running every continuation that is ready.
FairSpec == Spec /\ WF_vars(Continues("A"))

\* One peer and its locally gathered candidates.
NextCandidates ==
  \/ \E cand \in 0..MaxLocalEvents : IceCandidateEvent("A", cand)
  \/ \E event \in {"icecandidate", "candidategatheringdone"} : Subscribe("A", event)
  \/ disposeLog["A"] = <<>> /\ Dispose("A", "none")

\* Peer A of any construction.
InitAny ==
  \E c \in Configs :
    Constructed([p \in Peers |-> IF p = "A" THEN c ELSE RecvonlyConfig]) /\ ManglerIdle

CandidateSpec == InitAny /\ [][NextCandidates]_vars

\* One peer, its media and its teardown.
NextMedia ==
  \/ StartCall("A")
  \/ \E granted \in BOOLEAN : StartResumes("A", granted)
  \/ GenerateOfferCall("A")
  \/ \E sdp \in LocalSdps : GenerateOfferCreated("A", sdp)
  \/ GenerateOfferSet("A")
  \/ \E fault \in Faults : Dispose("A", fault)
  \/ DataChannelCloses("A")

MediaSpec == InitAny /\ [][NextMedia]_vars

\* The exchange of a sendonly peer A and a recvonly peer B: A generates an
\* offer, B processes it; candidates reach either peer at any time.
\* A's processAnswer needs the answer B's processOffer returns.
ExchangeOffer ==
  /\ result["A"].op = "generateOffer" /\ result["A"].kind = "returned"
  /\ ProcessOfferCall("B", result["A"].sdp)

NextExchange ==
  \/ GenerateOfferCall("A")
  \/ \E sdp \in LocalSdps : GenerateOfferCreated("A", sdp)
  \/ GenerateOfferSet("A")
  \/ ExchangeOffer
  \/ \E rollback \in BOOLEAN : ProcessOfferSet("B", rollback)
  \/ \E sdp \in LocalSdps : ProcessOfferAnswered("B", sdp)
  \/ \E p \in Peers : AddIceCandidate(p)

InitExchange ==
  Constructed([p \in Peers |-> IF p = "A" THEN SendonlyConfig ELSE RecvonlyConfig])
    /\ ManglerIdle

ExchangeSpec == InitExchange /\ [][NextExchange]_vars

\* A peer whose videoStream holds no video track (an audio-only stream).
AudioOnlyConfig ==
  Config("sendrecv", TRUE, FALSE, "supplied", FALSE, FALSE, TRUE, FALSE, TRUE, FALSE, FALSE, FALSE)

\* The Mangler's functions, each applied once to a description drawn from
\* Types and Texts, on a peer of any construction.
NextMangler ==
  \/ ApplyRemoveFID
  \/ ApplyGetSimulcastInfo("A")
  \/ ApplyMangle("A")

InitMangler ==
  \E c \in Configs \cup {AudioOnlyConfig}, t \in Types, sdp \in Texts :
    /\ Constructed([p \in Peers |-> IF p = "A" THEN c ELSE RecvonlyConfig])
    /\ answerIn = Desc(t, sdp)
    /\ outputs = [f \in MangleFunctions |-> NotApplied]

ManglerSpec == InitMangler /\ [][NextMangler]_vars

\* ------------------------------------------------------------ the claims
Range(q) == { q[i] : i \in 1..Len(q) }
Last(q) == q[Len(q)]
Submitted(p) == 1..Len(submissions[p])

\* A step in which addIceCandidate is called on p.
SubmitStep(p) == Len(submissions'[p]) = Len(submissions[p]) + 1

\* A step in which the Connection of p enters stable.
EntersStable(p) == signalingState[p] # "stable" /\ signalingState'[p] = "stable"

\* The candidates of the pc.addIceCandidate calls a step makes, in call order.
NewApplies(p) ==
  [i \in 1..(Len(applyLog'[p]) - Len(applyLog[p])) |-> applyLog'[p][Len(applyLog[p]) + i].cand]

\* C1: a candidate submitted while the Connection is neither stable nor closed
\* is queued in submission order and not applied while it is queued; the step
\* that enters stable applies exactly the queued candidates, in the order
\* they were submitted, and no other step applies a queued candidate.
C1_QueuedNotApplied ==
  \A p \in Peers :
    /\ \A i \in 1..Len(candidatesQueue[p]) :
         /\ submissions[p][candidatesQueue[p][i]].applies = 0
         /\ \A j \in 1..Len(candidatesQueue[p]) : i < j => candidatesQueue[p][i] < candidatesQueue[p][j]
    /\ \A id \in Submitted(p) :
         submissions[p][id].queued /\ submissions[p][id].applies = 0
           => id \in Range(candidatesQueue[p])

C1_FlushStep ==
  \A p \in Peers :
    /\ SubmitStep(p) /\ signalingState[p] \notin {"stable", "closed"}
         => /\ candidatesQueue'[p] = Append(candidatesQueue[p], Len(submissions'[p]))
            /\ applyLog'[p] = applyLog[p]
    /\ EntersStable(p) => NewApplies(p) = candidatesQueue[p]
    /\ ~EntersStable(p) => \A i \in 1..Len(NewApplies(p)) :
                              ~submissions'[p][NewApplies(p)[i]].queued

C1_QueuedAppliedFifoAtStable == []C1_QueuedNotApplied /\ [][C1_FlushStep]_vars

\* C1's case: two candidates went through the queue and were applied.
C1_Witness ==
  /\ Len(applyLog["A"]) >= 2
  /\ applyLog["A"][1].cand = 1 /\ applyLog["A"][2].cand = 2
  /\ submissions["A"][1].queued /\ submissions["A"][2].queued

\* C2: every candidate submitted while the Connection is not stable has its
\* future settled, exactly once, in every run.
C2_EverySubmissionSettles ==
  \A id \in 1..MaxCandidates :
    [](id \in Submitted("A") =>
         <>(/\ id \in Submitted("A")
            /\ submissions["A"][id].status # "pending"
            /\ submissions["A"][id].settles = 1))

\* C7: the step that closes the Connection rejects every submission pending
\* in the queue, and a submission made once it is closed is rejected with
\* ConnectionClosed.
C7_CloseStep ==
  \A p \in Peers :
    /\ signalingState[p] # "closed" /\ signalingState'[p] = "closed"
         => \A id \in Range(candidatesQueue[p]) : submissions'[p][id].status = "rejected"
    /\ SubmitStep(p) /\ signalingState[p] = "closed"
         => /\ Last(submissions'[p]).status = "rejected"
            /\ Last(submissions'[p]).error = "ConnectionClosed"

C7_CloseFailsPending == [][C7_CloseStep]_vars

\* C8: addIceCandidate on a closed Connection rejects with ConnectionClosed,
\* makes no pc.addIceCandidate call and leaves the queue as it was; the
\* candidate is not applied later either.
C8_ClosedStep ==
  \A p \in Peers :
    SubmitStep(p) /\ signalingState[p] = "closed"
      => /\ Last(submissions'[p]).status = "rejected"
         /\ Last(submissions'[p]).error = "ConnectionClosed"
         /\ Last(submissions'[p]).settles = 1
         /\ applyLog'[p] = applyLog[p]
         /\ candidatesQueue'[p] = candidatesQueue[p]

C8_ClosedNeverApplied ==
  \A p \in Peers : \A id \in Submitted(p) :
    submissions[p][id].error = "ConnectionClosed"
      => /\ submissions[p][id].applies = 0
         /\ submissions[p][id].status = "rejected"
         /\ id \notin Range(candidatesQueue[p])

C8_ClosedRejects == []C8_ClosedNeverApplied /\ [][C8_ClosedStep]_vars

\* C8's case: a submission was rejected with ConnectionClosed while another
\* one was sitting in the queue.
C8_Witness ==
  /\ signalingState["A"] = "closed"
  /\ candidatesQueue["A"] # <<>>
  /\ \E id \in Submitted("A") : submissions["A"][id].error = "ConnectionClosed"

\* C9: addIceCandidate on a stable Connection without a remote description
\* rejects with NoRemoteDescription and neither applies nor queues; with a
\* remote description it makes the pc.addIceCandidate call at once, and the
\* future settles as that call does.
C9_StableStep ==
  \A p \in Peers :
    SubmitStep(p) /\ signalingState[p] = "stable"
      => /\ candidatesQueue'[p] = candidatesQueue[p]
         /\ IF RemoteDescription(p) = NullDesc
            THEN /\ Last(submissions'[p]).status = "rejected"
                 /\ Last(submissions'[p]).error = "NoRemoteDescription"
                 /\ applyLog'[p] = applyLog[p]
            ELSE /\ Last(submissions'[p]).status = "pending"
                 /\ NewApplies(p) = <<Len(submissions'[p])>>

C9_SettlesAsApply ==
  \A p \in Peers : \A k \in 1..Len(applyLog[p]) :
    LET sub == submissions[p][applyLog[p][k].cand] IN
    ~sub.queued =>
      /\ applyLog[p][k].outcome = "pending" => sub.status = "pending" /\ sub.settles = 0
      /\ applyLog[p][k].outcome = "ok" => sub.status = "resolved" /\ sub.settles = 1
      /\ applyLog[p][k].outcome = "failed" =>
           sub.status = "rejected" /\ sub.error = "ApplyFailed" /\ sub.settles = 1

C9_StableSubmission == []C9_SettlesAsApply /\ [][C9_StableStep]_vars

\* C9's case: one submission was rejected for the missing remote
\* description, one was applied at once and failed, one was applied at once
\* and succeeded.
C9_Witness ==
  /\ \E id \in Submitted("A") : submissions["A"][id].error = "NoRemoteDescription"
  /\ \E id \in Submitted("A") :
       ~submissions["A"][id].queued /\ submissions["A"][id].error = "ApplyFailed"
  /\ \E id \in Submitted("A") :
       ~submissions["A"][id].queued /\ submissions["A"][id].status = "resolved"

\* C10: no candidate is passed to pc.addIceCandidate more than once; a
\* candidate that went through the queue is either still in it and not
\* applied, or out of it and applied exactly once; and the queue is empty
\* whenever the Connection is stable, so after every flush.
C10_AppliedOnce ==
  \A p \in Peers :
    /\ signalingState[p] = "stable" => candidatesQueue[p] = <<>>
    /\ \A id \in Submitted(p) :
         /\ submissions[p][id].applies <= 1
         /\ submissions[p][id].applies =
              Cardinality({ k \in 1..Len(applyLog[p]) : applyLog[p][k].cand = id })
         /\ submissions[p][id].queued =>
              IF id \in Range(candidatesQueue[p])
              THEN submissions[p][id].applies = 0
              ELSE submissions[p][id].applies = 1

\* C10's case: two flushes. The first candidate was queued and flushed, the
\* second applied at once on the stable Connection, the third queued in the
\* next negotiation and flushed by it.
C10_Witness ==
  /\ Len(submissions["A"]) = 3
  /\ submissions["A"][1].queued /\ submissions["A"][1].applies = 1
  /\ ~submissions["A"][2].queued /\ submissions["A"][2].applies = 1
  /\ submissions["A"][3].queued /\ submissions["A"][3].applies = 1
  /\ candidatesQueue["A"] = <<>>

\* C3: the step in which processOffer ends, once createAnswer has resolved
\* on a Connection holding the remote offer, returns; after it the local
\* description is an answer, its payload is what was returned, and the
\* signaling state is stable.
C3_ProcessOfferStep ==
  \A p \in Peers :
    /\ call[p].op = "processOffer" /\ call[p].pc = "createAnswer"
    /\ signalingState[p] = "have-remote-offer"
    /\ call'[p] = NoCall
    => /\ result'[p].kind = "returned"
       /\ signalingState'[p] = "stable"
       /\ LocalDescription(p)'.type = "answer"
       /\ result'[p].sdp = LocalDescription(p)'.sdp

C3_ProcessOfferSetsAnswer == [][C3_ProcessOfferStep]_vars

\* C4: the exchange runs to its end. Once B's processOffer on A's offer has
\* ended, it has returned the answer A is to process, and B's Connection is
\* stable with every candidate queued in B's gate applied.
C4_ExchangeEndsStable ==
  result["B"].op = "processOffer"
    => /\ result["B"].kind = "returned"
       /\ signalingState["B"] = "stable"
       /\ candidatesQueue["B"] = <<>>

\* C5: while a subscriber exists, every notification of a gathering (the
\* candidates, then the null candidate that ends it) is emitted at once: a
\* candidate as 'icecandidate', the null candidate as
\* 'candidategatheringdone'.
C5_EmitStep ==
  \A p \in Peers :
    ( /\ Len(localEvents'[p]) = Len(localEvents[p]) + 1
      /\ 0 \notin Range(localEvents[p])
      /\ HasSubscriber(p) )
    => LET cand == Last(localEvents'[p]) IN
       emitted'[p] = Append(emitted[p],
         IF cand # 0
         THEN Emission("icecandidate", cand, "emit", listeners[p].icecandidate)
         ELSE Emission("candidategatheringdone", cand, "emit",
                       listeners[p].candidategatheringdone))

C5_EveryNotificationEmitted == [][C5_EmitStep]_vars

\* C6: three candidates and the null candidate arrived before any
\* subscriber existed (nothing was emitted at once), then one listener was
\* registered for each event, in either order: the 'icecandidate' listener
\* was handed the three candidates in order and the
\* 'candidategatheringdone' listener one notification.
ReplayedTo(p, event) ==
  LET idx == { i \in 1..Len(emitted[p]) : emitted[p][i].event = event } IN
  [k \in 1..Cardinality(idx) |->
     emitted[p][CHOOSE i \in idx : Cardinality({ j \in idx : j <= i }) = k].cand]

C6_LateSubscribersReplay ==
  \A p \in Peers :
    /\ localEvents[p] = <<1, 2, 3, 0>>
    /\ \A i \in 1..Len(emitted[p]) : emitted[p][i].via = "replay"
    /\ hooks[p] /\ subscriptions[p] = 2
    /\ listeners[p] = [icecandidate |-> 1, candidategatheringdone |-> 1]
    => /\ ReplayedTo(p, "icecandidate") = <<1, 2, 3>>
       /\ ReplayedTo(p, "candidategatheringdone") = <<0>>

\* A step in which a negotiation call is made on p.
NegotiationCallStep(p) == calls'[p] = calls[p] + 1

\* C11: processOffer and processAnswer called on a closed Connection throw
\* ConnectionClosed at once: no setRemoteDescription is called (the call
\* never reaches an await and the Connection is left as it was) and the
\* remote video element is not touched.
C11_ClosedCallStep ==
  \A p \in Peers :
    ( /\ NegotiationCallStep(p)
      /\ signalingState[p] = "closed"
      /\ call'[p].op # "generateOffer" )
    => /\ call'[p] = NoCall
       /\ result'[p].op \in {"processOffer", "processAnswer"}
       /\ result'[p].kind = "threw"
       /\ result'[p].error = "ConnectionClosed"
       /\ <<signalingState[p], pendingRemoteDescription[p], currentRemoteDescription[p]>>'
            = <<signalingState[p], pendingRemoteDescription[p], currentRemoteDescription[p]>>
       /\ remoteVideoOps'[p] = remoteVideoOps[p]

C11_ClosedCallsThrow == [][C11_ClosedCallStep]_vars

\* C11's case: processAnswer threw ConnectionClosed on a closed Connection
\* whose peer has a remote video element.
C11_Witness ==
  /\ signalingState["A"] = "closed"
  /\ remoteVideo["A"]
  /\ result["A"].op = "processAnswer"
  /\ result["A"].error = "ConnectionClosed"

\* The payload generateOffer hands to setLocalDescription for the offer
\* createOffer produced: mangled when, and only when, simulcast is set.
ExpectedOffer(p, sdp) ==
  IF simulcast[p]
  THEN removeFIDFromOffer(sdp) \o getSimulcastInfo(hasVideoTrack[p], StreamId, TrackId)
  ELSE sdp

\* C12: the step in which generateOffer ends after setLocalDescription
\* returns the payload of the Connection's local description, which is the
\* offer createOffer produced, mangled iff simulcast is set; it throws
\* NoLocalDescription, and only then, when the Connection has none.
C12_GenerateOfferStep ==
  \A p \in Peers :
    ( /\ call[p].op = "generateOffer" /\ call[p].pc = "setLocalDescription"
      /\ call'[p] = NoCall
      /\ result'[p].error # "SetLocalFailed" )
    => /\ result'[p].op = "generateOffer"
       /\ IF LocalDescription(p)' = NullDesc
          THEN result'[p].kind = "threw" /\ result'[p].error = "NoLocalDescription"
          ELSE /\ result'[p].kind = "returned"
               /\ result'[p].sdp = LocalDescription(p)'.sdp
               /\ LocalDescription(p)'.type = "offer"
               /\ \E sdp \in LocalSdps : LocalDescription(p)'.sdp = ExpectedOffer(p, sdp)

C12_GenerateOfferReturnsLocal == [][C12_GenerateOfferStep]_vars

\* C12's case: generateOffer returned a mangled offer on a peer with
\* simulcast set.
C12_Witness ==
  /\ simulcast["A"]
  /\ result["A"].op = "generateOffer" /\ result["A"].kind = "returned"
  /\ \E sdp \in LocalSdps : result["A"].sdp # sdp
  /\ signalingState["A"] = "have-local-offer"

\* A step in which dispose is called on p.
DisposeStep(p) == Len(disposeLog'[p]) = Len(disposeLog[p]) + 1

DidNothing == DisposeDoes(FALSE, FALSE, FALSE, FALSE)

\* C13: when no step of either call throws, the second dispose call of a
\* peer does not throw and does nothing: no dc.close(), no track stopped, no
\* pc.close(), no emit('_dispose'), and the Connection, the data channel,
\* the tracks, the video elements and the listeners are left as they were.
C13_SecondDisposeStep ==
  \A p \in Peers :
    ( /\ DisposeStep(p)
      /\ Len(disposeLog[p]) = 1
      /\ disposeLog[p][1].fault = "none"
      /\ Last(disposeLog'[p]).fault = "none" )
    => /\ ~Last(disposeLog'[p]).threw
       /\ Last(disposeLog'[p]).did = DidNothing
       /\ signalingState'[p] = signalingState[p]
       /\ dataChannel'[p] = dataChannel[p]
       /\ stoppedTracks'[p] = stoppedTracks[p]
       /\ localVideoOps'[p] = localVideoOps[p]
       /\ remoteVideoOps'[p] = remoteVideoOps[p]
       /\ disposeEmits'[p] = disposeEmits[p]
       /\ listeners'[p] = listeners[p] /\ hooks'[p] = hooks[p]

C13_SecondDisposeNoOp == [][C13_SecondDisposeStep]_vars

\* C13's case: dispose was called twice on a peer with a data channel and
\* tracks; the first call closed the Connection and emitted '_dispose'.
C13_Witness ==
  /\ Len(disposeLog["A"]) = 2
  /\ disposeLog["A"][1].fault = "none" /\ disposeLog["A"][2].fault = "none"
  /\ disposeLog["A"][1].did = DisposeDoes(TRUE, TRUE, TRUE, TRUE)
  /\ stoppedTracks["A"] # {}
  /\ disposeEmits["A"] = 1

\* C14: no dispose call throws, whichever of its steps fails.
C14_DisposeNeverThrows ==
  \A p \in Peers : \A i \in 1..Len(disposeLog[p]) : ~disposeLog[p][i].threw

\* C15: once the first dispose call of a peer has returned, the Connection is
\* closed, every track attached to it is stopped and '_dispose' was emitted.
C15_FirstDisposeReleases ==
  \A p \in Peers :
    Len(disposeLog[p]) >= 1 /\ disposeLog[p][1].fault = "none"
      => /\ signalingState[p] = "closed"
         /\ senderTracks[p] \subseteq stoppedTracks[p]
         /\ disposeLog[p][1].did.emits

\* A step in which start resumes after its await and ends.
StartResumeStep(p) == startTask[p].pc \in {"acquire", "sleep"} /\ startTask'[p].pc = "idle"

\* C16: when start resumes (its acquisition granted or its tick passed) on
\* a closed Connection, it throws ConnectionClosedEarly, adds no track to
\* the Connection and does not touch the local video element.
C16_ClosedResumeStep ==
  \A p \in Peers :
    ( /\ StartResumeStep(p)
      /\ signalingState[p] = "closed"
      /\ startTask'[p].error # "AcquireFailed" )
    => /\ startTask'[p].kind = "threw"
       /\ startTask'[p].error = "ConnectionClosedEarly"
       /\ senderTracks'[p] = senderTracks[p]
       /\ transceivers'[p] = transceivers[p]
       /\ localVideoOps'[p] = localVideoOps[p]

C16_StartClosedEarly == [][C16_ClosedResumeStep]_vars

\* C16's case: dispose ran while start was acquiring its media; start threw
\* ConnectionClosedEarly with the acquired stream and no track attached.
C16_Witness ==
  /\ startTask["A"].error = "ConnectionClosedEarly"
  /\ videoStream["A"] = "acquired"
  /\ localVideo["A"]
  /\ senderTracks["A"] = {} /\ localVideoOps["A"] = <<>>

\* The positions of emitted[p] at which a buffered entry cand was handed to
\* a listener by the 'newListener' handler.
Replays(p, cand) ==
  { i \in 1..Len(emitted[p]) : emitted[p][i].via = "replay" /\ emitted[p][i].cand = cand }

\* A step in which a listener is registered on p while the 'newListener'
\* handler is in place.
DrainStep(p) == subscriptions'[p] = subscriptions[p] + 1 /\ hooks[p]

\* C17: no entry of candidatesQueueOut is handed to a listener twice: every
\* replay hands an entry to one listener, a candidate is replayed at most
\* once and never after it was emitted, a registration replays only what
\* the buffer holds at that moment and leaves the buffer empty.
C17_ReplayedOnce ==
  \A p \in Peers :
    /\ \A i \in 1..Len(emitted[p]) : emitted[p][i].via = "replay" => emitted[p][i].receivers = 1
    /\ \A cand \in 0..(MaxLocalEvents + 1) :
         /\ Cardinality(Replays(p, cand)) <= 1
         /\ Replays(p, cand) # {} => cand \notin Range(candidatesQueueOut[p])
         /\ Replays(p, cand) # {} /\ cand # 0 =>
              \A i \in 1..Len(emitted[p]) : emitted[p][i].cand = cand => i \in Replays(p, cand)

C17_DrainEmpties ==
  \A p \in Peers :
    DrainStep(p)
      => /\ candidatesQueueOut'[p] = <<>>
         /\ Len(emitted'[p]) - Len(emitted[p]) <= Len(candidatesQueueOut[p])
         /\ \A i \in (Len(emitted[p]) + 1)..Len(emitted'[p]) :
              /\ emitted'[p][i].via = "replay"
              /\ emitted'[p][i].cand \in Range(candidatesQueueOut[p])

C17_NoDuplicateReplay == []C17_ReplayedOnce /\ [][C17_DrainEmpties]_vars

\* C17's case: two candidates were buffered and replayed to the first
\* 'icecandidate' listener; a second one registered afterwards and was
\* handed nothing.
C17_Witness ==
  /\ listeners["A"].icecandidate = 2 /\ subscriptions["A"] = 2
  /\ Len(emitted["A"]) = 2
  /\ Replays("A", 1) = {1} /\ Replays("A", 2) = {2}
  /\ candidatesQueueOut["A"] = <<>>

\* C18: removeFIDFromOffer returns the prefix of its input that ends where
\* the first FID token starts, at whatever offset that is, and its input
\* when there is no FID token.
C18_StripsAtFirstMarker ==
  LET sdp == answerIn.sdp
      hits == { i \in 1..Len(sdp) : sdp[i] = FID }
      first == CHOOSE i \in hits : \A j \in hits : i <= j
  IN outputs["removeFIDFromOffer"].kind = "returned"
       => outputs["removeFIDFromOffer"].value =
            IF hits = {} THEN sdp ELSE SubSeq(sdp, 1, first - 1)

\* The lines of block that belong to layer k.
LayerLines(block, k) ==
  { i \in 1..Len(block) : block[i][1] = "a=ssrc" /\ block[i][2] = k }

\* C19: for a videoStream without video tracks getSimulcastInfo gives the
\* empty text, so the mangled payload is the stripped payload with nothing
\* appended; for one with a video track it gives one SIM group of the
\* layers 1, 2 and 3 and, for exactly these three layers, lines that name
\* the stream's id and the first video track's id.
C19_SimulcastBlock ==
  LET info == outputs["getSimulcastInfo"]
      stripped == outputs["removeFIDFromOffer"]
      mangled == outputs["mangleSdpToAddSimulcast"]
      block == info.value
      groups == { i \in 1..Len(block) : block[i][1] = "a=ssrc-group:SIM" }
      ssrcs == { i \in 1..Len(block) : block[i][1] = "a=ssrc" }
  IN info.kind = "returned" =>
       IF ~hasVideoTrack["A"]
       THEN /\ block = <<>>
            /\ simulcast["A"] /\ stripped.kind = "returned" /\ mangled.kind = "returned"
                 => mangled.value.sdp = stripped.value
       ELSE /\ Cardinality(groups) = 1
            /\ \A i \in groups : block[i] = <<"a=ssrc-group:SIM", "1", "2", "3">>
            /\ { block[i][2] : i \in ssrcs } = {"1", "2", "3"}
            /\ \A k \in {"1", "2", "3"} :
                 /\ \E i \in LayerLines(block, k) :
                      block[i][3] = "msid" /\ block[i][4] = StreamId /\ block[i][5] = TrackId
                 /\ \E i \in LayerLines(block, k) :
                      block[i] = <<"a=ssrc", k, "label", TrackId>>

\* C19's case: a simulcast peer whose videoStream has no video track
\* mangled a payload with a FID token; the payload was stripped and nothing
\* was appended.
C19_Witness ==
  /\ simulcast["A"] /\ ~hasVideoTrack["A"] /\ videoStream["A"] = "supplied"
  /\ outputs["getSimulcastInfo"] = Gave(<<>>)
  /\ outputs["mangleSdpToAddSimulcast"].kind = "returned"
  /\ outputs["removeFIDFromOffer"].kind = "returned"
  /\ answerIn.sdp = << <<"v=0">>, FID, <<"a=ssrc:9">> >>

\* C20: the description mangleSdpToAddSimulcast returns has the type of the
\* one it was given, and is the one it was given when simulcast is not set.
C20_TypePreserved ==
  LET mangled == outputs["mangleSdpToAddSimulcast"] IN
  mangled.kind = "returned"
    => /\ mangled.value.type = answerIn.type
       /\ ~simulcast["A"] => mangled.value = answerIn

\* C20's case: an answer was mangled on a simulcast peer with a video
\* track, and its payload changed.
C20_Witness ==
  /\ simulcast["A"] /\ hasVideoTrack["A"]
  /\ answerIn.type = "answer"
  /\ outputs["mangleSdpToAddSimulcast"].kind = "returned"
  /\ outputs["mangleSdpToAddSimulcast"].value.type = "answer"
  /\ outputs["mangleSdpToAddSimulcast"].value.sdp # answerIn.sdp

\* ---------------------------------------------------------------- C21
\* The order in which a video element is driven when a stream is shown on it:
\* pause, clear the source, assign the stream (and mute, for the local
\* element), load.
RenderOrder(muted) ==
  <<"pause", "srcObject=null", "srcObject=stream">>
    \o (IF muted THEN <<"muted=true">> ELSE <<>>) \o <<"load">>

\* C21: whenever start() shows the local stream, the local video element is
\* driven in the strict order pause, clear source, assign the stream, mute,
\* load.
C21_ShowLocalStep ==
  \A p \in Peers :
    ( /\ StartResumeStep(p)
      /\ startTask'[p].kind = "returned"
      /\ localVideo[p]
      /\ videoStream'[p] # "none" )
    => localVideoOps'[p] = RenderOrder(TRUE)

C21_RenderOrder == [][C21_ShowLocalStep]_vars

\* ---------------------------------------------------------------- C22
\* The future of every submission that went through the queue follows the
\* outcome of its own pc.addIceCandidate call.
C22_QueuedSettlesAsApply ==
  \A p \in Peers : \A k \in 1..Len(applyLog[p]) :
    LET sub == submissions[p][applyLog[p][k].cand] IN
    sub.queued =>
      /\ applyLog[p][k].outcome = "pending" => sub.status = "pending" /\ sub.settles = 0
      /\ applyLog[p][k].outcome = "ok" => sub.status = "resolved" /\ sub.settles = 1
      /\ applyLog[p][k].outcome = "failed" =>
           sub.status = "rejected" /\ sub.error = "ApplyFailed" /\ sub.settles = 1

\* The step in which one pc.addIceCandidate call settles leaves every other
\* submission, and every other call, as it was.
C22_SettleStep ==
  \A p \in Peers : \A k \in 1..Len(applyLog[p]) :
    ( /\ applyLog[p][k].outcome = "pending"
      /\ Len(applyLog'[p]) = Len(applyLog[p])
      /\ applyLog'[p][k].outcome # "pending" )
    => /\ \A id \in Submitted(p) \ {applyLog[p][k].cand} :
            submissions'[p][id] = submissions[p][id]
       /\ \A j \in (1..Len(applyLog[p])) \ {k} : applyLog'[p][j] = applyLog[p][j]

\* C22: each queued submission's future settles with the outcome of its own
\* apply call: a failed apply rejects that submission alone with the apply
\* error, and the other queued candidates are applied and settle on their
\* own.
C22_QueuedSettleIndependently == []C22_QueuedSettlesAsApply /\ [][C22_SettleStep]_vars

\* C22's case: two candidates were queued and applied by the same flush, one
\* after the other; the apply of the first failed and rejected it, the apply
\* of the second succeeded and resolved it.
C22_Witness ==
  /\ Len(applyLog["A"]) >= 2
  /\ submissions["A"][1].queued /\ submissions["A"][2].queued
  /\ applyLog["A"][1].cand = 1 /\ applyLog["A"][2].cand = 2
  /\ applyLog["A"][1].outcome = "failed" /\ applyLog["A"][2].outcome = "ok"
  /\ submissions["A"][1].status = "rejected" /\ submissions["A"][1].error = "ApplyFailed"
  /\ submissions["A"][2].status = "resolved"

\* ---------------------------------------------------------------- C23
\* The step in which generateOffer calls createOffer.
OfferRequestStep(p) == NegotiationCallStep(p) /\ call'[p].op = "generateOffer"

AllDirections(ts, direction) == \A i \in 1..Len(ts) : ts[i] = direction

\* C23: when generateOffer requests the offer, every transceiver of a
\* recvonly peer is recvonly and every transceiver of a sendonly peer is
\* sendonly; on a sendrecv peer generateOffer adds no transceiver and changes
\* no direction.
C23_OfferRequestStep ==
  \A p \in Peers :
    OfferRequestStep(p) =>
      /\ mode[p] = "recvonly" => AllDirections(transceivers'[p], "recvonly")
      /\ mode[p] = "sendonly" => AllDirections(transceivers'[p], "sendonly")
      /\ mode[p] = "sendrecv" => transceivers'[p] = transceivers[p]

C23_DirectionsAtOffer == [][C23_OfferRequestStep]_vars

\* ---------------------------------------------------------------- C24
\* C24: every pc.addIceCandidate call the gate makes, at once on a
\* submission or from the queue in a flush, is made while the Connection is
\* stable and has a remote description.
C24_AppliesInStableWithRemote ==
  \A p \in Peers : \A k \in 1..Len(applyLog[p]) :
    applyLog[p][k].state = "stable" /\ applyLog[p][k].remote

\* C24's case: one candidate was applied by a flush, another at once on
\* submission, and the peer has been disposed since.
C24_Witness ==
  /\ \E k \in 1..Len(applyLog["A"]) : submissions["A"][applyLog["A"][k].cand].queued
  /\ \E k \in 1..Len(applyLog["A"]) : ~submissions["A"][applyLog["A"][k].cand].queued
  /\ disposeLog["A"] # <<>>
  /\ signalingState["A"] = "closed"

\* ---------------------------------------------------------------- C25
\* start acquired a media source and found the Connection closed when it
\* resumed: dispose ran while it was suspended, and both have finished.
DisposedWhileAcquiring(p) ==
  /\ startTask[p].pc = "idle"
  /\ startTask[p].error = "ConnectionClosedEarly"
  /\ videoStream[p] = "acquired"
  /\ disposeLog[p] # <<>>

\* C25: when dispose ran while start was acquiring a media source, every
\* track of the stream start acquired has been stopped once both finished.
C25_AcquiredTracksStopped ==
  \A p \in Peers :
    DisposedWhileAcquiring(p) => StreamTracks(p, "acquired") \subseteq stoppedTracks[p]

\* ---------------------------------------------------------------- C26
\* The deliveries of the gathering-done notification to at least one
\* listener, emitted or replayed.
GatheringDoneDeliveries(p) ==
  { i \in 1..Len(emitted[p]) :
      emitted[p][i].event = "candidategatheringdone" /\ emitted[p][i].receivers > 0 }

NullNotifications(p) == { i \in 1..Len(localEvents[p]) : localEvents[p][i] = 0 }

\* C26: over the life of a peer the gathering-done notification is delivered
\* at most once, emissions to existing listeners and replays to a late
\* listener counted together.
C26_GatheringDoneAtMostOnce ==
  \A p \in Peers : Cardinality(GatheringDoneDeliveries(p)) <= 1

\* C26's case: the Connection ended gathering more than once, with
\* candidates in between, listeners were registered late, and the
\* notification was delivered.
C26_Witness ==
  /\ Cardinality(NullNotifications("A")) >= 2
  /\ \E i \in 1..Len(localEvents["A"]) : localEvents["A"][i] # 0
  /\ subscriptions["A"] = MaxListeners
  /\ Cardinality(GatheringDoneDeliveries("A")) = 1
====
